---- MODULE Spec2Model ----
(***************************************************************************)
(* Budget-Buddy backend: the database router, the accounts endpoints       *)
(* (register, login, logout, list, retrieve), the finance endpoints        *)
(* (categories, transactions, budgets) and the user statistics service,    *)
(* over a relational store with the constraints the models declare.        *)
(*                                                                         *)
(* Each HTTP request runs on a worker.  The two handlers that validate  *)
(* and then save where a uniqueness rule applies (registration, budget     *)
(* creation) are split between is_valid() and save(), so that concurrent   *)
(* requests interleave between the check and the insert; every other       *)
(* handler touches the store once and is one step.  The store's insert is  *)
(* atomic and applies the unique indexes the models declare.               *)
(*                                                                         *)
(* Thai display strings of the source are written in ASCII (RTGS           *)
(* romanisation for the category labels, English keys for the messages).   *)
(***************************************************************************)
EXTENDS Integers, Sequences, FiniteSets, TLC

VARIABLES
    users,      \* table "User": set of rows
    budgets,    \* table "Budget": set of rows
    txns,       \* table "Transaction": set of rows
    pc,         \* worker -> position of the request it is handling
    req,        \* worker -> validated data of the request it is handling
    resp,       \* the last HTTP response sent (or service result returned)
    placed,     \* (database alias, app label) pairs whose tables were migrated
    rcall       \* the last decision the router returned

vars == <<users, budgets, txns, pc, req, resp, placed, rcall>>

accountVars == <<users>>
financeVars == <<budgets, txns>>
routerVars == <<placed, rcall>>

---------------------------------------------------------------------------
(* Bounds of the model *)

NumWorkers == 2
MaxBudgets == 2
MaxTxns == 3

Workers == 1..NumWorkers

\* Python's None where a string is expected, and where a record is.
None == "None"
Nothing == [nothing |-> TRUE]

NoResp == [op |-> "none", status |-> 0, req |-> Nothing, body |-> Nothing]

\* AutoField primary key: no row is ever deleted, so the next key is the
\* number of rows plus one.
NextId(rows) == Cardinality(rows) + 1

---------------------------------------------------------------------------
(* BudgetBuddy/db_router.py *)

AppLabels == {"accounts", "finance", "auth", "contenttypes", "Finance"}
DbAliases == {"default", "supabase", "replica"}

\* obj._state.db: the alias a record was loaded from, None before it is saved.
ResidentDbs == DbAliases \cup {None}

\* A router that forgets the finance module.
db_for_read_accounts_only(app_label) ==
    IF app_label \in {"accounts"} THEN "supabase" ELSE "default"

db_for_read(app_label) ==
    IF app_label \in {"accounts", "finance"} THEN "supabase" ELSE "default"

db_for_write(app_label) ==
    IF app_label \in {"accounts", "finance"} THEN "supabase" ELSE "default"

\* A router that denies relations across instances.
allow_relation_same_db(db1, db2) ==
    LET db_set == {"default", "supabase"}
    IN  IF db1 \in db_set /\ db2 \in db_set
        THEN (IF db1 = db2 THEN "True" ELSE "False")
        ELSE "None"

allow_relation(db1, db2) ==
    LET db_set == {"default", "supabase"}
    IN  IF db1 \in db_set /\ db2 \in db_set THEN "True" ELSE "None"

\* A router that lets the privileged modules onto either known instance.
allow_migrate_any_known_db(db, app_label) ==
    IF app_label \in {"accounts", "finance"}
    THEN db \in {"default", "supabase"}
    ELSE db = "default"

allow_migrate(db, app_label) ==
    IF app_label \in {"accounts", "finance"}
    THEN db = "supabase"
    ELSE db = "default"

\* A Python bool as the router returns it.
PyBool(b) == IF b THEN "True" ELSE "False"

RouterCall(op, app_label, db, db2, result) ==
    [op |-> op, app_label |-> app_label, db |-> db, db2 |-> db2, result |-> result]

NoCall == RouterCall("none", None, None, None, None)

\* The ORM asks the router where to read a model of app_label.
RouteRead(app_label) ==
    /\ rcall' = RouterCall("db_for_read", app_label, None, None, db_for_read(app_label))
    /\ UNCHANGED <<accountVars, financeVars, pc, req, resp, placed>>

\* The ORM asks the router where to write a model of app_label.
RouteWrite(app_label) ==
    /\ rcall' = RouterCall("db_for_write", app_label, None, None, db_for_write(app_label))
    /\ UNCHANGED <<accountVars, financeVars, pc, req, resp, placed>>

\* The ORM asks whether objects resident on db1 and db2 may be related.
CheckRelation(db1, db2) ==
    /\ rcall' = RouterCall("allow_relation", None, db1, db2, allow_relation(db1, db2))
    /\ UNCHANGED <<accountVars, financeVars, pc, req, resp, placed>>

\* migrate --database=db reaches app_label: its tables are created on db
\* exactly when the router allows it.
Migrate(db, app_label) ==
    /\ rcall' = RouterCall("allow_migrate", app_label, db, None, PyBool(allow_migrate(db, app_label)))
    /\ placed' = IF allow_migrate(db, app_label)
                 THEN placed \cup {<<db, app_label>>}
                 ELSE placed
    /\ UNCHANGED <<accountVars, financeVars, pc, req, resp>>

---------------------------------------------------------------------------
(* accounts: models.py, serializers.py, views.py *)

\* django.contrib.auth.hashers: the digest of a password under a salt, an
\* injective function of the pair (collisions of PBKDF2 are not modelled).
PasswordDigest(salt, password) == <<"pbkdf2_sha256", salt, password>>

Salts == {"s1", "s2"}

make_password(password, salt) ==
    [algorithm |-> "pbkdf2_sha256", salt |-> salt, hash |-> PasswordDigest(salt, password)]

check_password(password, encoded) ==
    PasswordDigest(encoded.salt, password) = encoded.hash

\* Request bodies of POST users/create/ ("" is a missing or blank field).
UserPayload(username, password, password_confirm, first_name, last_name) ==
    [username |-> username, password |-> password,
     password_confirm |-> password_confirm,
     first_name |-> first_name, last_name |-> last_name]

UserPayloads ==
    { UserPayload("alice", "secret1", "secret1", "Ann", "Lee"),
      UserPayload("alice", "hunter22", "hunter22", "", ""),
      UserPayload("Alice", "secret1", "secret1", "", ""),
      UserPayload("Alice", "secret1", "hunter22", "", ""),
      UserPayload("alice", "abc", "abc", "", ""),
      UserPayload("", "secret1", "secret1", "", "") }

UserIds == {1, 2, 3}

LoginUsernames == {"alice", "Alice", "bob", ""}
LoginPasswords == {"secret1", "hunter22", ""}

\* User.objects.filter(username=value).exists(): exact, case-sensitive match.
UsernameExists(rows, value) == \E u \in rows : u.username = value

\* A User table without the unique index.
UserUniqueViolation_none(rows, row) == FALSE

\* The store's unique index on User.username (unique=True).
UserUniqueViolation(rows, row) == \E u \in rows : u.username = row.username

\* UserSerializer(user).data without the timestamp.
UserData(u) ==
    [user_id |-> u.user_id, username |-> u.username,
     first_name |-> u.first_name, last_name |-> u.last_name]

\* Field validation of UserCreateSerializer: required fields, min_length,
\* the unique validator of the model field and validate_username.
UserFieldErrors(rows, d) ==
    (IF d.username = "" \/ UsernameExists(rows, d.username) THEN {"username"} ELSE {})
    \cup (IF Len(d.password) < 6 THEN {"password"} ELSE {})
    \cup (IF d.password_confirm = "" THEN {"password_confirm"} ELSE {})

\* is_valid(): validate() runs only when every field passed.
UserCreateErrors(rows, d) ==
    IF UserFieldErrors(rows, d) # {} THEN UserFieldErrors(rows, d)
    ELSE IF d.password # d.password_confirm THEN {"non_field_errors"}
    ELSE {}

Response(op, status, request, body) ==
    [op |-> op, status |-> status, req |-> request, body |-> body]

\* CreateUserView.create, up to serializer.is_valid(raise_exception=True).
CreateUserValidate(w, d) ==
    /\ pc[w] = "idle"
    /\ LET errs == UserCreateErrors(users, d)
       IN  IF errs # {}
           THEN /\ resp' = Response("create_user", 400, d, [errors |-> errs])
                /\ UNCHANGED <<pc, req>>
           ELSE /\ pc' = [pc EXCEPT ![w] = "user_valid"]
                /\ req' = [req EXCEPT ![w] = d]
                /\ UNCHANGED resp
    /\ UNCHANGED <<accountVars, financeVars, routerVars>>

\* CreateUserView.create, serializer.save(): UserCreateSerializer.create
\* hashes the password and inserts the row; the insert fails with
\* IntegrityError on the unique index.
CreateUserSave(w) ==
    /\ pc[w] = "user_valid"
    /\ \E salt \in Salts :
          LET d == req[w]
              row == [user_id |-> NextId(users), username |-> d.username,
                      first_name |-> d.first_name, last_name |-> d.last_name,
                      password |-> make_password(d.password, salt)]
          IN  IF UserUniqueViolation(users, row)
              THEN /\ users' = users
                   /\ resp' = Response("create_user", 500, d, [raised |-> "IntegrityError"])
              ELSE /\ users' = users \cup {row}
                   /\ resp' = Response("create_user", 201, d,
                                       [success |-> TRUE, data |-> UserData(row)])
    /\ pc' = [pc EXCEPT ![w] = "idle"]
    /\ req' = [req EXCEPT ![w] = Nothing]
    /\ UNCHANGED <<financeVars, routerVars>>

\* A login that answers "wrong password" for an unknown username too.
LoginResponse_unknown_is_invalid(rows, username, password) ==
    LET r == [username |-> username, password |-> password]
    IN  IF username = "" \/ password = ""
        THEN Response("login", 400, r, [success |-> FALSE, message |-> "missing_fields"])
        ELSE IF \E u \in rows : u.username = username
                  /\ check_password(password, u.password)
        THEN LET user == CHOOSE u \in rows : u.username = username
             IN  Response("login", 200, r,
                          [success |-> TRUE, message |-> "login_ok",
                           data |-> UserData(user)])
        ELSE Response("login", 400, r,
                      [success |-> FALSE, message |-> "wrong_password"])

\* LoginView.post
LoginResponse(rows, username, password) ==
    LET r == [username |-> username, password |-> password]
    IN  IF username = "" \/ password = ""
        THEN Response("login", 400, r, [success |-> FALSE, message |-> "missing_fields"])
        ELSE IF ~ \E u \in rows : u.username = username
        THEN Response("login", 404, r, [success |-> FALSE, message |-> "user_not_found"])
        ELSE LET user == CHOOSE u \in rows : u.username = username
             IN  IF check_password(password, user.password)
                 THEN Response("login", 200, r,
                               [success |-> TRUE, message |-> "login_ok",
                                data |-> UserData(user)])
                 ELSE Response("login", 400, r,
                               [success |-> FALSE, message |-> "wrong_password"])

Login(w, username, password) ==
    /\ pc[w] = "idle"
    /\ resp' = LoginResponse(users, username, password)
    /\ UNCHANGED <<accountVars, financeVars, routerVars, pc, req>>

\* LogoutView.post
Logout(w) ==
    /\ pc[w] = "idle"
    /\ resp' = Response("logout", 200, Nothing, [success |-> TRUE, message |-> "logout_ok"])
    /\ UNCHANGED <<accountVars, financeVars, routerVars, pc, req>>

\* AllUsersView
AllUsers(w) ==
    /\ pc[w] = "idle"
    /\ resp' = Response("all_users", 200, Nothing,
                        [results |-> {UserData(u) : u \in users}])
    /\ UNCHANGED <<accountVars, financeVars, routerVars, pc, req>>

\* RetrieveUserView, lookup_field = "user_id"
RetrieveUser(w, user_id) ==
    /\ pc[w] = "idle"
    /\ resp' = IF \E u \in users : u.user_id = user_id
               THEN Response("retrieve_user", 200, [user_id |-> user_id],
                             UserData(CHOOSE u \in users : u.user_id = user_id))
               ELSE Response("retrieve_user", 404, [user_id |-> user_id],
                             [detail |-> "not_found"])
    /\ UNCHANGED <<accountVars, financeVars, routerVars, pc, req>>

---------------------------------------------------------------------------
(* finance: models.py, serializers.py, views.py *)

\* Transaction.CATEGORY_CHOICES, in the order of the source.
CATEGORY_CHOICES ==
    << <<"food", "ahan">>,
       <<"transport", "doenthang">>,
       <<"shopping", "chopping">>,
       <<"health", "sukkhaphap">>,
       <<"education", "kansueksa">>,
       <<"bills", "khanam khafai">>,
       <<"entertainment", "banthoeng">>,
       <<"savings", "omngoen">>,
       <<"salary", "ngoenduean">>,
       <<"others", "uen uen">> >>

TYPE_CHOICES == << <<"income", "rairap">>, <<"expense", "raichai">> >>

\* The values a ChoiceField built from choices accepts.
ChoiceValues(choices) == {choices[i][1] : i \in DOMAIN choices}

\* get_category_display()
CategoryLabel(value) ==
    LET i == CHOOSE j \in DOMAIN CATEGORY_CHOICES : CATEGORY_CHOICES[j][1] = value
    IN  CATEGORY_CHOICES[i][2]

\* A listing in the reverse of the source order.
get_list_reversed ==
    [i \in DOMAIN CATEGORY_CHOICES |->
        [value |-> CATEGORY_CHOICES[Len(CATEGORY_CHOICES) + 1 - i][1],
         label |-> CATEGORY_CHOICES[Len(CATEGORY_CHOICES) + 1 - i][2]]]

\* CategoryChoiceSerializer.get_list
get_list ==
    [i \in DOMAIN CATEGORY_CHOICES |->
        [value |-> CATEGORY_CHOICES[i][1], label |-> CATEGORY_CHOICES[i][2]]]

Date(y, m, d) == [year |-> y, month |-> m, day |-> d]

\* Amounts are decimals with two places; every amount of the model is a
\* whole number far below the field's twelve digits.
TxnPayload(category, type, amount, date) ==
    [category |-> category, type |-> type, amount |-> amount, date |-> date]

TxnPayloads ==
    { TxnPayload("salary", "income", 1000, Date(2025, 9, 5)),
      TxnPayload("food", "expense", 300, Date(2025, 9, 10)),
      TxnPayload("food", "expense", 50, Date(2025, 8, 1)),
      TxnPayload("food", "expense", 50, Date(2024, 9, 10)),
      TxnPayload("pets", "expense", 50, Date(2025, 9, 5)),
      TxnPayload("food", "transfer", 50, Date(2025, 9, 5)),
      TxnPayload("food", "expense", -5, Date(2025, 9, 5)) }

BudgetPayload(category, budget_amount, cycle_month) ==
    [category |-> category, budget_amount |-> budget_amount, cycle_month |-> cycle_month]

BudgetPayloads ==
    { BudgetPayload("food", 500, Date(2025, 9, 1)),
      BudgetPayload("food", -5, Date(2025, 9, 1)),
      BudgetPayload("food", 500, Date(2025, 10, 1)),
      BudgetPayload("pets", 500, Date(2025, 9, 1)) }

\* datetime.now(), as far as get_user_stats reads it.
Nows == { [year |-> 2025, month |-> 9], [year |-> 2025, month |-> 8] }

\* Field validation of TransactionCreateSerializer (a ModelSerializer over
\* category, type, amount, note, date): the two choice fields check
\* membership; amount is a DecimalField(max_digits=12, decimal_places=2)
\* without validators, which bounds the digits and not the sign.
TxnErrors(d) ==
    (IF d.category \notin ChoiceValues(CATEGORY_CHOICES) THEN {"category"} ELSE {})
    \cup (IF d.type \notin ChoiceValues(TYPE_CHOICES) THEN {"type"} ELSE {})

\* Field validation of BudgetCreateSerializer (a ModelSerializer over
\* category, budget_amount, cycle_month).  "user" is not a field of the
\* serializer, so it carries no validator for unique_together;
\* budget_amount is a DecimalField without validators.
BudgetErrors(rows, user_id, d) ==
    IF d.category \notin ChoiceValues(CATEGORY_CHOICES) THEN {"category"} ELSE {}

\* A Budget table without the unique index.
BudgetUniqueViolation_none(rows, row) == FALSE

\* The store's unique index for Budget.Meta.unique_together.
BudgetUniqueViolation(rows, row) ==
    \E b \in rows : /\ b.user = row.user
                    /\ b.category = row.category
                    /\ b.cycle_month = row.cycle_month

\* TransactionSerializer(obj).data without the timestamp; created_at is the
\* order of insertion, which transaction_id follows.
TxnData(t) ==
    [transaction_id |-> t.transaction_id, category |-> t.category,
     category_label |-> CategoryLabel(t.category), type |-> t.type,
     amount |-> t.amount, date |-> t.date]

\* BudgetSerializer(obj).data without the timestamps.
BudgetData(b) ==
    [budget_id |-> b.budget_id, category |-> b.category,
     category_label |-> CategoryLabel(b.category),
     budget_amount |-> b.budget_amount, cycle_month |-> b.cycle_month]

\* Transaction.Meta.ordering = ["-created_at"], serialized with many=True.
RECURSIVE NewestTxnsFirst(_)
NewestTxnsFirst(rows) ==
    IF rows = {} THEN << >>
    ELSE LET newest == CHOOSE r \in rows :
                          \A o \in rows : o.transaction_id <= r.transaction_id
         IN  <<TxnData(newest)>> \o NewestTxnsFirst(rows \ {newest})

\* Budget.Meta.ordering = ["-created_at"], serialized with many=True.
RECURSIVE NewestBudgetsFirst(_)
NewestBudgetsFirst(rows) ==
    IF rows = {} THEN << >>
    ELSE LET newest == CHOOSE r \in rows : \A o \in rows : o.budget_id <= r.budget_id
         IN  <<BudgetData(newest)>> \o NewestBudgetsFirst(rows \ {newest})

\* category_choices
CategoryChoicesView(w) ==
    /\ pc[w] = "idle"
    /\ resp' = Response("category_choices", 200, Nothing, [results |-> get_list])
    /\ UNCHANGED <<accountVars, financeVars, routerVars, pc, req>>

\* my_transactions, for the authenticated user u
MyTransactions(w, u) ==
    /\ pc[w] = "idle"
    /\ resp' = Response("my_transactions", 200, [user |-> u.user_id],
                        [results |-> NewestTxnsFirst({t \in txns : t.user = u.user_id})])
    /\ UNCHANGED <<accountVars, financeVars, routerVars, pc, req>>

\* A create_transaction that writes with update_or_create on (user,
\* category, date): a second request for the same key replaces the row.
CreateTransaction_update_or_create(w, u, d) ==
    /\ pc[w] = "idle"
    /\ IF TxnErrors(d) # {}
       THEN /\ resp' = Response("create_transaction", 400, [user |-> u.user_id, data |-> d],
                                 [errors |-> TxnErrors(d)])
            /\ UNCHANGED txns
       ELSE /\ Cardinality(txns) < MaxTxns
            /\ LET row == [transaction_id |-> NextId(txns), user |-> u.user_id,
                           category |-> d.category, type |-> d.type,
                           amount |-> d.amount, date |-> d.date]
                   old == {t \in txns : /\ t.user = u.user_id
                                         /\ t.category = d.category
                                         /\ t.date = d.date}
               IN  /\ txns' = (txns \ old) \cup {row}
                   /\ resp' = Response("create_transaction", 201,
                                      [user |-> u.user_id, data |-> d], TxnData(row))
    /\ UNCHANGED <<accountVars, budgets, routerVars, pc, req>>

\* create_transaction, for the authenticated user u: is_valid() reads no
\* table and the insert cannot fail, so the handler is one step.  The
\* request is request.user with request.data.
CreateTransaction(w, u, d) ==
    /\ pc[w] = "idle"
    /\ IF TxnErrors(d) # {}
       THEN /\ resp' = Response("create_transaction", 400, [user |-> u.user_id, data |-> d],
                                 [errors |-> TxnErrors(d)])
            /\ UNCHANGED txns
       ELSE /\ Cardinality(txns) < MaxTxns
            /\ LET row == [transaction_id |-> NextId(txns), user |-> u.user_id,
                           category |-> d.category, type |-> d.type,
                           amount |-> d.amount, date |-> d.date]
               IN  /\ txns' = txns \cup {row}
                   /\ resp' = Response("create_transaction", 201,
                                      [user |-> u.user_id, data |-> d], TxnData(row))
    /\ UNCHANGED <<accountVars, budgets, routerVars, pc, req>>

\* my_budgets, for the authenticated user u
MyBudgets(w, u) ==
    /\ pc[w] = "idle"
    /\ resp' = Response("my_budgets", 200, [user |-> u.user_id],
                        [results |-> NewestBudgetsFirst({b \in budgets : b.user = u.user_id})])
    /\ UNCHANGED <<accountVars, financeVars, routerVars, pc, req>>

\* create_budget, for the authenticated user u, up to ser.is_valid().
CreateBudgetValidate(w, u, d) ==
    /\ pc[w] = "idle"
    /\ LET errs == BudgetErrors(budgets, u.user_id, d)
       IN  IF errs # {}
           THEN /\ resp' = Response("create_budget", 400, d, [errors |-> errs])
                /\ UNCHANGED <<pc, req>>
           ELSE /\ pc' = [pc EXCEPT ![w] = "budget_valid"]
                /\ req' = [req EXCEPT ![w] = [user |-> u.user_id, data |-> d]]
                /\ UNCHANGED resp
    /\ UNCHANGED <<accountVars, financeVars, routerVars>>

\* create_budget, ser.save(): BudgetCreateSerializer.create inserts the
\* row; the insert fails with IntegrityError on the unique index, which
\* the view does not catch.
CreateBudgetSave(w) ==
    /\ pc[w] = "budget_valid"
    /\ LET d == req[w].data
           row == [budget_id |-> NextId(budgets), user |-> req[w].user,
                   category |-> d.category, budget_amount |-> d.budget_amount,
                   cycle_month |-> d.cycle_month]
       IN  IF BudgetUniqueViolation(budgets, row)
           THEN /\ budgets' = budgets
                /\ resp' = Response("create_budget", 500, req[w], [raised |-> "IntegrityError"])
           ELSE /\ Cardinality(budgets) < MaxBudgets
                /\ budgets' = budgets \cup {row}
                /\ resp' = Response("create_budget", 201, req[w], BudgetData(row))
    /\ pc' = [pc EXCEPT ![w] = "idle"]
    /\ req' = [req EXCEPT ![w] = Nothing]
    /\ UNCHANGED <<accountVars, txns, routerVars>>

---------------------------------------------------------------------------
(* accounts/services.py: UserService.get_user_stats *)

\* The fields of finance.models.Transaction that a lookup can name.
TransactionFields ==
    {"transaction_id", "user", "category", "type", "amount", "note", "date", "created_at"}

\* One keyword argument of filter(): field, or field__part, and the value.
Lookup(field, part, value) == [field |-> field, part |-> part, value |-> value]

TxnMatches(t, l) ==
    CASE l.field = "user" -> t.user = l.value
      [] l.field = "type" -> t.type = l.value
      [] l.field = "category" -> t.category = l.value
      [] l.field = "date" /\ l.part = "month" -> t.date.month = l.value
      [] l.field = "date" /\ l.part = "year" -> t.date.year = l.value
      [] OTHER -> FALSE

\* Transaction.objects.filter(**lookups): the ORM resolves every keyword
\* against the model's fields when the queryset is built and raises
\* FieldError for a name the model does not have, whatever the rows are.
TxnObjectsFilter(rows, lookups) ==
    IF \E i \in DOMAIN lookups : lookups[i].field \notin TransactionFields
    THEN [raised |-> "FieldError", rows |-> {}]
    ELSE [raised |-> None,
          rows |-> {t \in rows : \A i \in DOMAIN lookups : TxnMatches(t, lookups[i])}]

RECURSIVE SumAmount(_)
SumAmount(rows) ==
    IF rows = {} THEN 0
    ELSE LET t == CHOOSE r \in rows : TRUE
         IN  t.amount + SumAmount(rows \ {t})

\* .aggregate(total=Sum('amount'))['total'] or 0: Sum is None over no rows.
TotalOrZero(rows) == IF rows = {} THEN 0 ELSE SumAmount(rows)

StatsResult(raised, count, income, expense, balance, nbudgets) ==
    [raised |-> raised, transactions_count |-> count, monthly_income |-> income,
     monthly_expense |-> expense, monthly_balance |-> balance, budgets_count |-> nbudgets]

get_user_stats(trows, brows, user_id, now) ==
    LET counted == TxnObjectsFilter(trows, <<Lookup("user", "exact", user_id)>>)
        income == TxnObjectsFilter(trows,
                      <<Lookup("user", "exact", user_id),
                       Lookup("transaction_type", "exact", "income"),
                       Lookup("date", "month", now.month),
                       Lookup("date", "year", now.year)>>)
        expense == TxnObjectsFilter(trows,
                      <<Lookup("user", "exact", user_id),
                       Lookup("transaction_type", "exact", "expense"),
                       Lookup("date", "month", now.month),
                       Lookup("date", "year", now.year)>>)
        budgets_count == Cardinality({b \in brows : b.user = user_id})
    IN  IF counted.raised # None THEN StatsResult(counted.raised, 0, 0, 0, 0, 0)
        ELSE IF income.raised # None THEN StatsResult(income.raised, 0, 0, 0, 0, 0)
        ELSE IF expense.raised # None THEN StatsResult(expense.raised, 0, 0, 0, 0, 0)
        ELSE StatsResult(None, Cardinality(counted.rows),
                         TotalOrZero(income.rows), TotalOrZero(expense.rows),
                         TotalOrZero(income.rows) - TotalOrZero(expense.rows),
                         budgets_count)

\* A call of UserService.get_user_stats(u) while the clock reads now.
UserStats(w, u, now) ==
    /\ pc[w] = "idle"
    /\ resp' = Response("get_user_stats", 0, [user |-> u.user_id, now |-> now],
                        get_user_stats(txns, budgets, u.user_id, now))
    /\ UNCHANGED <<accountVars, financeVars, routerVars, pc, req>>

---------------------------------------------------------------------------
(* Specifications *)

Init ==
    /\ users = {}
    /\ budgets = {}
    /\ txns = {}
    /\ pc = [w \in Workers |-> "idle"]
    /\ req = [w \in Workers |-> Nothing]
    /\ resp = NoResp
    /\ placed = {}
    /\ rcall = NoCall

NextRouter ==
    \/ \E a \in AppLabels : RouteRead(a)
    \/ \E a \in AppLabels : RouteWrite(a)
    \/ \E d1 \in ResidentDbs, d2 \in ResidentDbs : CheckRelation(d1, d2)
    \/ \E d \in DbAliases, a \in AppLabels : Migrate(d, a)

NextAccounts ==
    \/ \E w \in Workers, d \in UserPayloads : CreateUserValidate(w, d)
    \/ \E w \in Workers : CreateUserSave(w)
    \/ \E w \in Workers, u \in LoginUsernames, p \in LoginPasswords : Login(w, u, p)
    \/ \E w \in Workers : Logout(w)
    \/ \E w \in Workers : AllUsers(w)
    \/ \E w \in Workers, i \in UserIds : RetrieveUser(w, i)

\* The finance endpoints need an authenticated user: two registered users,
\* as CreateUserSave leaves them.
SeedUsers ==
    { [user_id |-> 1, username |-> "alice", first_name |-> "Ann", last_name |-> "Lee",
       password |-> make_password("secret1", "s1")],
      [user_id |-> 2, username |-> "Alice", first_name |-> "", last_name |-> "",
       password |-> make_password("secret1", "s2")] }

InitFinance ==
    /\ users = SeedUsers
    /\ budgets = {}
    /\ txns = {}
    /\ pc = [w \in Workers |-> "idle"]
    /\ req = [w \in Workers |-> Nothing]
    /\ resp = NoResp
    /\ placed = {}
    /\ rcall = NoCall

NextBudget ==
    \/ \E w \in Workers, u \in users, d \in BudgetPayloads : CreateBudgetValidate(w, u, d)
    \/ \E w \in Workers : CreateBudgetSave(w)
    \/ \E w \in Workers, u \in users : MyBudgets(w, u)

NextTxn ==
    \/ \E w \in Workers : CategoryChoicesView(w)
    \/ \E w \in Workers, u \in users : MyTransactions(w, u)
    \/ \E w \in Workers, u \in users, d \in TxnPayloads : CreateTransaction(w, u, d)
    \/ \E w \in Workers, u \in users, now \in Nows : UserStats(w, u, now)

\* Every URL pattern of accounts/urls.py and finance/urls.py in one
\* scenario: alice is registered, Alice registers, and both use the finance
\* endpoints.
EndpointUserPayloads == { UserPayload("Alice", "secret1", "secret1", "", "") }
EndpointLogins == { <<"alice", "secret1">> }
EndpointUserIds == {2}
EndpointTxnPayloads ==
    { TxnPayload("salary", "income", 1000, Date(2025, 9, 5)),
      TxnPayload("food", "transfer", 50, Date(2025, 9, 5)) }
EndpointBudgetPayloads == { BudgetPayload("food", 500, Date(2025, 9, 1)) }

InitEndpoints ==
    /\ users = {u \in SeedUsers : u.username = "alice"}
    /\ budgets = {}
    /\ txns = {}
    /\ pc = [w \in Workers |-> "idle"]
    /\ req = [w \in Workers |-> Nothing]
    /\ resp = NoResp
    /\ placed = {}
    /\ rcall = NoCall

NextEndpoints ==
    \/ \E w \in Workers : AllUsers(w)
    \/ \E w \in Workers, d \in EndpointUserPayloads : CreateUserValidate(w, d)
    \/ \E w \in Workers : CreateUserSave(w)
    \/ \E w \in Workers, i \in EndpointUserIds : RetrieveUser(w, i)
    \/ \E w \in Workers, l \in EndpointLogins : Login(w, l[1], l[2])
    \/ \E w \in Workers : Logout(w)
    \/ \E w \in Workers : CategoryChoicesView(w)
    \/ \E w \in Workers, u \in users : MyTransactions(w, u)
    \/ \E w \in Workers, u \in users, d \in EndpointTxnPayloads : CreateTransaction(w, u, d)
    \/ \E w \in Workers, u \in users : MyBudgets(w, u)
    \/ \E w \in Workers, u \in users, d \in EndpointBudgetPayloads :
          CreateBudgetValidate(w, u, d)
    \/ \E w \in Workers : CreateBudgetSave(w)

Next == NextRouter \/ NextAccounts \/ NextBudget \/ NextTxn

\* The whole system.
Spec == Init /\ [][Next]_vars

\* The router alone.
SpecRouter == Init /\ [][NextRouter]_vars

\* The accounts endpoints over an empty store.
SpecAccounts == Init /\ [][NextAccounts]_vars

\* Budget creation and listing by two registered users.
SpecBudget == InitFinance /\ [][NextBudget]_vars

\* Transactions, categories and statistics of two registered users.
SpecTxn == InitFinance /\ [][NextTxn]_vars

\* The accounts and finance endpoints together.
SpecEndpoints == InitEndpoints /\ [][NextEndpoints]_vars

---------------------------------------------------------------------------
(* Properties *)

PrivilegedModule(name) == name = "accounts" \/ name = "finance"

\* C1: for every module name and both access modes, the router answers
\* the secondary instance ("supabase") exactly for "accounts" and
\* "finance" and the primary instance ("default") for every other name;
\* the answer is one instance and depends on the name alone.
C1_RoutingByModule ==
    rcall.op \in {"db_for_read", "db_for_write"} =>
        /\ rcall.result \in {"default", "supabase"}
        /\ (rcall.result = "supabase") <=> PrivilegedModule(rcall.app_label)
        /\ (rcall.result = "default") <=> ~ PrivilegedModule(rcall.app_label)

\* A write of a finance model was routed, after some tables were migrated.
C1_Witness ==
    /\ rcall.op = "db_for_write"
    /\ rcall.app_label = "finance"
    /\ rcall.result = "supabase"
    /\ placed # {}

SameTriple(a, b) ==
    /\ a.user = b.user
    /\ a.category = b.category
    /\ a.cycle_month = b.cycle_month

\* C2: in every reachable state, whatever the interleaving of concurrent
\* create_budget requests, the Budget table holds at most one row per
\* (user, category, cycle_month); the store itself refuses the second.
C2_OneBudgetPerTriple ==
    \A a \in budgets, b \in budgets : SameTriple(a, b) => a = b

\* One request was refused by the store while another request for the same
\* triple is still between is_valid() and save(), and the triple has a row.
C2_Witness ==
    /\ resp.op = "create_budget"
    /\ resp.status = 500
    /\ \E w \in Workers :
          /\ pc[w] = "budget_valid"
          /\ req[w].user = resp.req.user
          /\ req[w].data.category = resp.req.data.category
          /\ req[w].data.cycle_month = resp.req.data.cycle_month
          /\ \E b \in budgets : /\ b.user = req[w].user
                                /\ b.category = req[w].data.category
                                /\ b.cycle_month = req[w].data.cycle_month

\* C3: a create_budget request whose (user, category, cycle_month) is that
\* of an existing row ends with the 400 response carrying the serializer's
\* errors, in every ordering of requests, and leaves the Budget rows as
\* they were.
C3_DuplicateBudgetIsValidationError ==
    [][ \A w \in Workers :
          ( /\ pc[w] = "budget_valid"
            /\ pc'[w] = "idle"
            /\ \E b \in budgets : /\ b.user = req[w].user
                                  /\ b.category = req[w].data.category
                                  /\ b.cycle_month = req[w].data.cycle_month )
          => ( /\ resp'.op = "create_budget"
               /\ resp'.status = 400
               /\ budgets' = budgets ) ]_vars

UniqueUsernames ==
    \A a \in users, b \in users : a.username = b.username => a = b

NameTaken(name) == \E u \in users : u.username = name

\* A registration of a name some row already has does not get past
\* validate_username, or is refused by the store if the name was taken
\* later; every step that changes the table adds one row with a new name.
TakenNameIsRefused ==
    /\ \A w \in Workers :
          (pc[w] = "idle" /\ pc'[w] = "user_valid") => ~ NameTaken(req'[w].username)
    /\ \A w \in Workers :
          (pc[w] = "user_valid" /\ pc'[w] = "idle" /\ NameTaken(req[w].username))
          => (users' = users /\ resp'.op = "create_user" /\ resp'.status \in {400, 500})
    /\ users' # users =>
          \E row \in users' : /\ row \notin users
                              /\ users' = users \cup {row}
                              /\ ~ NameTaken(row.username)

\* C4: registering a username that exactly matches an existing user's
\* fails and creates no second row, also when two registrations pass the
\* existence check before either inserts: no two rows share a username.
C4_UsernameRegisteredOnce ==
    /\ []UniqueUsernames
    /\ [][TakenNameIsRefused]_vars

\* A registration passed validate_username and was then refused by the
\* store, because a concurrent registration inserted the name in between;
\* the name differing only in case is registered too.
C4_Witness ==
    /\ resp.op = "create_user"
    /\ resp.status = 500
    /\ \E u \in users : u.username = resp.req.username
    /\ \E u \in users, v \in users : u.username = "alice" /\ v.username = "Alice"

\* What a login with both fields supplied must answer over the rows.
LoginOutcome(rows, r) ==
    LET named == {u \in rows : u.username = r.req.username}
    IN  /\ r.status \in {200, 400, 404}
        /\ named = {} => (r.status = 404 /\ r.body.message = "user_not_found")
        /\ \A u \in named :
              IF check_password(r.req.password, u.password)
              THEN /\ r.status = 200
                   /\ r.body.data = [user_id |-> u.user_id, username |-> u.username,
                                     first_name |-> u.first_name,
                                     last_name |-> u.last_name]
              ELSE /\ r.status = 400
                   /\ r.body.message = "wrong_password"

\* C5: a login with both fields supplied answers 404 "not found" when no
\* row has the username, 400 "invalid credentials" when the row's hash
\* does not verify the password, and 200 with that user's public profile
\* when it does.
C5_LoginOutcomes ==
    [][ ( /\ resp'.op = "login"
          /\ resp'.req.username # ""
          /\ resp'.req.password # "" )
        => LoginOutcome(users, resp') ]_vars

\* A registered user logged in with another user's password and was told
\* the password is wrong.
C5_Witness ==
    /\ resp.op = "login"
    /\ resp.status = 400
    /\ resp.body.message = "wrong_password"
    /\ resp.req.username = "alice"
    /\ resp.req.password = "hunter22"
    /\ \E u \in users : u.username = "Alice"

RECURSIVE Total(_)
Total(rows) ==
    IF rows = {} THEN 0
    ELSE LET t == CHOOSE r \in rows : TRUE IN t.amount + Total(rows \ {t})

MonthTotal(rows, user_id, type, now) ==
    Total({t \in rows : /\ t.user = user_id
                        /\ t.type = type
                        /\ t.date.month = now.month
                        /\ t.date.year = now.year})

\* C6: get_user_stats returns monthly_income and monthly_expense equal to
\* the sums of the user's income and expense amounts dated in the current
\* month and year, and monthly_balance equal to their difference.
C6_MonthlyTotals ==
    resp.op = "get_user_stats" =>
        /\ resp.body.raised = None
        /\ resp.body.monthly_income =
              MonthTotal(txns, resp.req.user, "income", resp.req.now)
        /\ resp.body.monthly_expense =
              MonthTotal(txns, resp.req.user, "expense", resp.req.now)
        /\ resp.body.monthly_balance =
              resp.body.monthly_income - resp.body.monthly_expense

\* C7: for a user without transactions and budgets get_user_stats returns
\* the number zero five times.
C7_ZeroStats ==
    ( /\ resp.op = "get_user_stats"
      /\ \A t \in txns : t.user # resp.req.user
      /\ \A b \in budgets : b.user # resp.req.user )
    => /\ resp.body.raised = None
       /\ resp.body.transactions_count = 0
       /\ resp.body.monthly_income = 0
       /\ resp.body.monthly_expense = 0
       /\ resp.body.monthly_balance = 0
       /\ resp.body.budgets_count = 0

\* C8: get_user_stats(U) returns five values that depend on U's rows only:
\* the values over the whole store are the values over U's rows alone.
C8_OwnRowsOnly ==
    resp.op = "get_user_stats" =>
        LET own == get_user_stats({t \in txns : t.user = resp.req.user},
                                  {b \in budgets : b.user = resp.req.user},
                                  resp.req.user, resp.req.now)
        IN  /\ resp.body.raised = None
            /\ own.raised = None
            /\ resp.body = own

\* C9: allow_migrate permits (instance, module) exactly for the secondary
\* instance with "accounts" or "finance" and the primary instance with any
\* other module, so a module's tables exist on at most one instance, the
\* one its reads and writes are routed to.
C9_MigratePlacement ==
    /\ rcall.op = "allow_migrate" =>
          /\ rcall.result \in {"True", "False"}
          /\ (rcall.result = "True") <=>
                ( \/ (rcall.db = "supabase" /\ PrivilegedModule(rcall.app_label))
                  \/ (rcall.db = "default" /\ ~ PrivilegedModule(rcall.app_label)) )
    /\ \A p \in placed : p[1] = db_for_read(p[2]) /\ p[1] = db_for_write(p[2])
    /\ \A p \in placed, q \in placed : p[2] = q[2] => p[1] = q[1]

\* Tables of both kinds are placed and a migration of finance onto the
\* primary instance was just rejected.
C9_Witness ==
    /\ rcall.op = "allow_migrate"
    /\ rcall.app_label = "finance"
    /\ rcall.db = "default"
    /\ rcall.result = "False"
    /\ <<"supabase", "finance">> \in placed
    /\ <<"default", "auth">> \in placed

TenCategories ==
    << [value |-> "food", label |-> "ahan"],
       [value |-> "transport", label |-> "doenthang"],
       [value |-> "shopping", label |-> "chopping"],
       [value |-> "health", label |-> "sukkhaphap"],
       [value |-> "education", label |-> "kansueksa"],
       [value |-> "bills", label |-> "khanam khafai"],
       [value |-> "entertainment", label |-> "banthoeng"],
       [value |-> "savings", label |-> "omngoen"],
       [value |-> "salary", label |-> "ngoenduean"],
       [value |-> "others", label |-> "uen uen"] >>

\* C10: the categories endpoint answers the ten fixed (value, label) pairs
\* in their fixed order, whatever the store holds.
C10_FixedCategories ==
    /\ get_list = TenCategories
    /\ resp.op = "category_choices" => (resp.status = 200 /\ resp.body.results = TenCategories)

\* The endpoint answered while the Transaction table is full.
C10_Witness ==
    /\ resp.op = "category_choices"
    /\ Cardinality(txns) = MaxTxns

TenCodes == {TenCategories[i].value : i \in DOMAIN TenCategories}

\* C11: every stored Transaction and Budget row has a non-negative amount
\* and a category among the ten codes, and every Transaction a type of
\* income or expense; a create request that breaks one of these is answered
\* with an error and adds no row.
C11_RowsWellFormed ==
    /\ \A t \in txns : /\ t.amount >= 0
                       /\ t.category \in TenCodes
                       /\ t.type \in {"income", "expense"}
    /\ \A b \in budgets : /\ b.budget_amount >= 0
                          /\ b.category \in TenCodes
    /\ ( /\ resp.op = "create_transaction"
         /\ \/ resp.req.data.amount < 0
            \/ resp.req.data.category \notin TenCodes
            \/ resp.req.data.type \notin {"income", "expense"} )
       => resp.status = 400

KnownDbs == {"default", "supabase"}

TxnStep ==
    /\ \A t \in txns : t \in txns'
    /\ \A t \in txns' \ txns :
          /\ resp'.op = "create_transaction"
          /\ resp'.status = 201
          /\ t.user = resp'.req.user
          /\ t.category = resp'.req.data.category
          /\ t.type = resp'.req.data.type
          /\ t.amount = resp'.req.data.amount
          /\ t.date = resp'.req.data.date
          /\ \A o \in txns : o.transaction_id # t.transaction_id
    /\ Cardinality(txns' \ txns) <= 1

\* C13: a Transaction is created owned by the requesting user and no
\* operation of the finance or accounts endpoints changes or removes an
\* existing Transaction row: the table only grows and each row keeps its
\* owner, category, direction, amount and date.
C13_TransactionsImmutable == [][TxnStep]_vars

\* Both users own transactions, a budget exists, and an accounts endpoint
\* has answered since.
C13_Witness ==
    /\ \E t \in txns : t.user = 1
    /\ \E t \in txns : t.user = 2
    /\ Cardinality(txns) = MaxTxns
    /\ budgets # {}
    /\ resp.op = "login"
    /\ resp.status = 200

====
